---- MODULE Spec2Model ----
(***************************************************************************)
(* Model of src/app.py, the Streamlit dashboard "HR Attrition Analytics".  *)
(*                                                                         *)
(* The script is re-executed from top to bottom on every user interaction. *)
(* One action of the model is one complete execution of the script: the    *)
(* cached load, the driver list, the three tabs.  An exception ends the    *)
(* execution at the line that raises it; what was rendered before stays    *)
(* on the page.                                                            *)
(*                                                                         *)
(* Encoding.                                                               *)
(*   - a feature name is the sequence of its code points, so that Python's *)
(*     sorted() on str is the lexicographic order it is: <<65, 66>> = "AB" *)
(*   - an attrition rate is a whole number of percent; a mean is the pair  *)
(*     <<sum, count>>, compared by cross multiplication (float rounding is *)
(*     not modelled)                                                       *)
(*   - a DataFrame is [columns, rows]; a selection of it keeps, per row,   *)
(*     the index label and the row                                         *)
(*   - sort_values() uses quicksort, which is not stable: the order of     *)
(*     rows with equal keys is a nondeterministic choice                   *)
(*   - every cell of a CSV row holds a value: no loaded column has a NaN   *)
(***************************************************************************)
EXTENDS Integers, Sequences, FiniteSets, TLC

VARIABLES
    files,             \* the two CSV files on disk (never written by the app)
    cache,             \* st.cache_data's memo of load_data()
    reads,             \* how many times the body of load_data() has run
    df_scores,         \* module-level names bound by the last execution
    df_pairs,
    driver_features,
    selected_feature,
    uni,
    top_combos,
    display_df,
    f1,
    f2,
    subset,
    pivot,
    top_drivers,
    top_profiles,
    rendered,          \* the elements the last execution put on the page
    error,             \* the exception that ended the last execution
    pc                 \* "fresh" before the first execution, then "ran"

vars == << files, cache, reads, df_scores, df_pairs, driver_features,
           selected_feature, uni, top_combos, display_df, f1, f2, subset,
           pivot, top_drivers, top_profiles, rendered, error, pc >>

\* ------------------------------------------------------------------ bounds

\* The largest number of rows of a pairwise CSV.
MaxRows == 6

\* ------------------------------------------------------- program constants

\* uni: .head(5)
HeadUni == 5
\* top_combos: .head(3)
HeadCombos == 3
\* top_drivers: .head(5)
HeadDrivers == 5
\* top_profiles: .head(5)
HeadProfiles == 5
\* st.selectbox("Feature 1", driver_features, index=0)
IndexF1 == 0
\* st.selectbox("Feature 2", driver_features, index=1)
IndexF2 == 1

\* ------------------------------------------------------------------ values

\* Python's None (no code point is negative).
None == << -1 >>
\* A mean over no row, a pivot cell no row fills: NaN.
NaN == << 0, 0 >>
\* A DataFrame that was never bound.
NoFrame == [columns |-> {}, rows |-> << >>]

PairColumns ==
    {"feature_1", "feature_1_value", "feature_2", "feature_2_value",
     "attrition_rate", "support"}

\* The scored CSV has columns of its own; the script reads none of them.
ScoreColumns == {"Attrition"}

Row(a, av, b, bv, r, s) ==
    [feature_1 |-> a, feature_1_value |-> av, feature_2 |-> b,
     feature_2_value |-> bv, attrition_rate |-> r, support |-> s]

Range(s) == {s[i] : i \in DOMAIN s}

RECURSIVE SumOver(_, _)
\* The sum of f over the finite set S (f a function on S).
SumOver(S, f) ==
    IF S = {} THEN 0
    ELSE LET x == CHOOSE y \in S : TRUE IN f[x] + SumOver(S \ {x}, f)

\* a/b >= c/d for means <<a, b>>, <<c, d>> with b, d > 0.
RateGE(x, y) == x[1] * y[2] >= y[1] * x[2]

Min(a, b) == IF a <= b THEN a ELSE b

\* ------------------------------------------------------------ Python, pandas

RECURSIVE StrLess(_, _)
\* str.__lt__: code point by code point, a proper prefix first.
StrLess(a, b) ==
    IF a = << >> THEN b # << >>
    ELSE IF b = << >> THEN FALSE
    ELSE IF Head(a) # Head(b) THEN Head(a) < Head(b)
    ELSE StrLess(Tail(a), Tail(b))

RECURSIVE Insert(_, _)
\* x put into the ascending list s, after the elements equal to it.
Insert(x, s) ==
    IF s = << >> THEN << x >>
    ELSE IF StrLess(x, Head(s)) THEN << x >> \o s
    ELSE << Head(s) >> \o Insert(x, Tail(s))

RECURSIVE sorted(_)
\* sorted(list of str): ascending, stable.
sorted(s) == IF s = << >> THEN << >> ELSE Insert(s[Len(s)], sorted(SubSeq(s, 1, Len(s) - 1)))

RECURSIVE unique(_)
\* Series.unique().tolist(): the values in order of first appearance.
unique(s) ==
    IF s = << >> THEN << >>
    ELSE LET u == unique(SubSeq(s, 1, Len(s) - 1)) IN
         IF s[Len(s)] \in Range(u) THEN u ELSE Append(u, s[Len(s)])

RECURSIVE list_of_set(_)
\* list(set(...)): the elements once each, in an order the build picks; every
\* caller sorts the list, so one enumeration stands for all.
list_of_set(S) ==
    IF S = {} THEN << >>
    ELSE LET x == CHOOSE y \in S : TRUE IN << x >> \o list_of_set(S \ {x})

\* df[name] as a list.
Column(df, name) == [i \in DOMAIN df.rows |-> df.rows[i][name]]

RECURSIVE Ascending(_)
\* The set of index labels I as the ascending sequence.
Ascending(I) ==
    IF I = {} THEN << >>
    ELSE LET m == CHOOSE x \in I : \A y \in I : x <= y IN << m >> \o Ascending(I \ {m})

\* df[mask]: the rows with index label in I, in the order of df, each with its label.
Select(df, I) ==
    LET idx == Ascending(I) IN
    [k \in DOMAIN idx |-> [index |-> idx[k], row |-> df.rows[idx[k]]]]

\* The sort key of an entry: a row's attrition_rate, or a group's mean.
Rate(x) == IF "row" \in DOMAIN x THEN << x.row.attrition_rate, 1 >> ELSE x.attrition_rate

RECURSIVE sort_values(_)
\* .sort_values("attrition_rate", ascending=False) of the entries S: every
\* order that is non-increasing in the key (ties in any order).
sort_values(S) ==
    IF S = {} THEN {<< >>}
    ELSE UNION { { << m >> \o t : t \in sort_values(S \ {m}) } :
                 m \in {x \in S : \A y \in S : RateGE(Rate(x), Rate(y))} }

Reverse(s) == [k \in DOMAIN s |-> s[Len(s) + 1 - k]]

\* .head(n)
head(s, n) == SubSeq(s, 1, Min(n, Len(s)))

\* The mean of attrition_rate over the entries of sel with index label in I.
MeanRate(df, I) ==
    IF I = {} THEN NaN
    ELSE << SumOver(I, [i \in I |-> df.rows[i].attrition_rate]), Cardinality(I) >>

\* ------------------------------------------------------------ load (l. 51-57)

\* pd.read_csv(path): the frame, or the exception it raises.
read_csv(file) ==
    CASE file.status = "missing"   -> [error |-> "FileNotFoundError", frame |-> NoFrame]
      [] file.status = "malformed" -> [error |-> "ParserError", frame |-> NoFrame]
      [] OTHER -> [error |-> "none",
                   frame |-> [columns |-> file.columns, rows |-> file.rows]]

\* load_data() without its decorator: the body.
load_data_body(fs) ==
    LET scores == read_csv(fs.scores) IN
    IF scores.error # "none"
    THEN [error |-> scores.error, scores |-> NoFrame, pairs |-> NoFrame]
    ELSE LET pairs == read_csv(fs.pairs) IN
         IF pairs.error # "none"
         THEN [error |-> pairs.error, scores |-> NoFrame, pairs |-> NoFrame]
         ELSE [error |-> "none", scores |-> scores.frame, pairs |-> pairs.frame]

\* A mutant of load_data: the decorator left out, every execution reads the files.
load_data_uncached(c, fs) ==
    LET r == load_data_body(fs) IN
    [error |-> r.error, scores |-> r.scores, pairs |-> r.pairs, cache |-> c, reads |-> 1]

\* @st.cache_data load_data(): a hit returns (a copy of) the memo and runs
\* nothing; a miss runs the body and memoises its return value; an exception
\* is not memoised.
load_data(c, fs) ==
    IF c.hit
    THEN [error |-> "none", scores |-> c.scores, pairs |-> c.pairs, cache |-> c, reads |-> 0]
    ELSE LET r == load_data_body(fs) IN
         [error |-> r.error, scores |-> r.scores, pairs |-> r.pairs,
          cache |-> IF r.error = "none"
                    THEN [hit |-> TRUE, scores |-> r.scores, pairs |-> r.pairs]
                    ELSE c,
          reads |-> 1]

\* ---------------------------------------------------- driver list (l. 62-66)

\* A mutant of DriverFeatures: l. 66 left out.
DriverFeaturesOnce(pairs) ==
    sorted(unique(Column(pairs, "feature_1")) \o unique(Column(pairs, "feature_2")))

\* driver_features, l. 62-66.
DriverFeatures(pairs) ==
    LET first == sorted(unique(Column(pairs, "feature_1")) \o
                        unique(Column(pairs, "feature_2")))
    IN  sorted(list_of_set(Range(first)))

\* st.selectbox(label, options, index): the user's choice when there is one,
\* else options[index]; None without options; an exception when index is
\* not a position of a non-empty options.
selectbox(options, index, choice) ==
    IF Len(options) > 0 /\ ~(0 <= index /\ index < Len(options))
    THEN [error |-> "StreamlitAPIException", value |-> None]
    ELSE IF Len(options) = 0 THEN [error |-> "none", value |-> None]
    ELSE IF choice # None THEN [error |-> "none", value |-> choice]
    ELSE [error |-> "none", value |-> options[index + 1]]

\* ------------------------------------------------------------- tab 1 (l. 80-159)

\* A mutant of UniFilter: the rows that mention F on either side.
UniFilterEitherSide(pairs, F) ==
    {i \in DOMAIN pairs.rows :
        pairs.rows[i].feature_1 = F \/ pairs.rows[i].feature_2 = F}

\* uni, l. 98-100: the index labels of df_pairs[df_pairs["feature_1"] == selected_feature].
UniFilter(pairs, F) == {i \in DOMAIN pairs.rows : pairs.rows[i].feature_1 = F}

\* uni, l. 102-107: .groupby("feature_1_value").agg(mean of attrition_rate,
\* sum of support) over the rows I; one entry per key.
UniGroups(pairs, I) ==
    { LET G == {i \in I : pairs.rows[i].feature_1_value = v} IN
      [feature_1_value |-> v,
       attrition_rate  |-> MeanRate(pairs, G),
       support         |-> SumOver(G, [i \in G |-> pairs.rows[i].support])] :
      v \in {pairs.rows[i].feature_1_value : i \in I} }

\* A mutant of Uni: ascending=False left out.
UniAscending(pairs, F) ==
    { head(Reverse(s), HeadUni) : s \in sort_values(UniGroups(pairs, UniFilter(pairs, F))) }

\* uni, l. 98-110: the values the name can be bound to.
Uni(pairs, F) ==
    { head(s, HeadUni) : s \in sort_values(UniGroups(pairs, UniFilter(pairs, F))) }

\* A mutant of CombosFilter: the feature_2 side left out.
CombosFilterFirstOnly(pairs, F) ==
    {i \in DOMAIN pairs.rows : pairs.rows[i].feature_1 = F}

\* top_combos, l. 136-138: the index labels of the rows that mention F.
CombosFilter(pairs, F) ==
    {i \in DOMAIN pairs.rows :
        pairs.rows[i].feature_1 = F \/ pairs.rows[i].feature_2 = F}

\* top_combos, l. 136-139.
TopCombos(pairs, F) ==
    { head(s, HeadCombos) : s \in sort_values(Range(Select(pairs, CombosFilter(pairs, F)))) }

\* A column label of the source table.
Label(name) == [renamed |-> FALSE, name |-> name, of |-> None]
\* The label f"{selected_feature} Value".
ValueLabel(F) == [renamed |-> TRUE, name |-> " Value", of |-> F]

\* display_df, l. 142-154: the six columns of top_combos, copied, one renamed.
DisplayDf(tc, F) ==
    LET cols == << "feature_1", "feature_1_value", "feature_2",
                   "feature_2_value", "attrition_rate", "support" >>
    IN  [columns |-> [k \in DOMAIN cols |->
                        IF cols[k] = "feature_1_value" THEN ValueLabel(F)
                        ELSE Label(cols[k])],
         rows |-> [i \in DOMAIN tc |->
                     [index |-> tc[i].index,
                      cells |-> [k \in DOMAIN cols |-> tc[i].row[cols[k]]]]]]

\* The outputs no execution has bound yet.
Unbound ==
    [df_scores |-> NoFrame, df_pairs |-> NoFrame, driver_features |-> << >>,
     selected_feature |-> None, uni |-> << >>, top_combos |-> << >>,
     display_df |-> [columns |-> << >>, rows |-> << >>],
     f1 |-> None, f2 |-> None, subset |-> << >>,
     pivot |-> [index |-> {}, columns |-> {}, cell |-> << >>],
     top_drivers |-> << >>, top_profiles |-> << >>,
     rendered |-> {}, error |-> "none"]

\* with tab1: what the block binds and renders, for each order the sorts can
\* produce.  `choice` is the user's pick in the selectbox (None: none yet).
Tab1(pairs, options, choice) ==
    LET F  == selectbox(options, 0, choice).value
        r1 == {"tab1.header", "tab1.selectbox", "tab1.subheader_uni"}
    IN
    IF ~({"feature_1_value", "attrition_rate", "support"} \subseteq pairs.columns)
    THEN {[selected_feature |-> F, rendered |-> r1, error |-> "KeyError"]}
    ELSE UNION {
        LET r2 == r1 \cup (IF u = << >> THEN {"tab1.warning"} ELSE {"tab1.chart"})
                     \cup {"tab1.subheader_combos"}
        IN  { IF "feature_2_value" \notin pairs.columns
              THEN [selected_feature |-> F, uni |-> u, top_combos |-> tc,
                    rendered |-> r2, error |-> "KeyError"]
              ELSE [selected_feature |-> F, uni |-> u, top_combos |-> tc,
                    display_df |-> DisplayDf(tc, F),
                    rendered |-> r2 \cup {"tab1.dataframe"}, error |-> "none"] :
              tc \in TopCombos(pairs, F) } :
        u \in Uni(pairs, F) }

\* ------------------------------------------------------------ tab 2 (l. 164-219)

\* A mutant of SubsetFilter: the pair matched in either order.
SubsetFilterEitherOrder(pairs, a, b) ==
    {i \in DOMAIN pairs.rows :
        \/ pairs.rows[i].feature_1 = a /\ pairs.rows[i].feature_2 = b
        \/ pairs.rows[i].feature_1 = b /\ pairs.rows[i].feature_2 = a}

\* subset, l. 179-182: the index labels of the rows storing the pair as (a, b).
SubsetFilter(pairs, a, b) ==
    {i \in DOMAIN pairs.rows :
        pairs.rows[i].feature_1 = a /\ pairs.rows[i].feature_2 = b}

\* pivot, l. 185-189: pivot_table(index, columns, values) with its default
\* aggfunc="mean"; a cell no row fills is NaN.
PivotTable(pairs, I) ==
    LET idx  == {pairs.rows[i].feature_1_value : i \in I}
        cols == {pairs.rows[i].feature_2_value : i \in I}
    IN  [index |-> idx, columns |-> cols,
         cell |-> [c \in idx \X cols |->
                     MeanRate(pairs, {i \in I : /\ pairs.rows[i].feature_1_value = c[1]
                                                /\ pairs.rows[i].feature_2_value = c[2]})]]

\* with tab2.
Tab2(pairs, options, choice1, choice2) ==
    LET s1 == selectbox(options, IndexF1, choice1)
        s2 == selectbox(options, IndexF2, choice2)
        r1 == {"tab2.header", "tab2.selectbox_f1"}
    IN
    IF s2.error # "none"
    THEN [f1 |-> s1.value, rendered |-> r1, error |-> s2.error]
    ELSE LET I == SubsetFilter(pairs, s1.value, s2.value) IN
         IF I # {}
         THEN [f1 |-> s1.value, f2 |-> s2.value, subset |-> Select(pairs, I),
               pivot |-> PivotTable(pairs, I),
               rendered |-> r1 \cup {"tab2.selectbox_f2", "tab2.heatmap"},
               error |-> "none"]
         ELSE [f1 |-> s1.value, f2 |-> s2.value, subset |-> << >>,
               rendered |-> r1 \cup {"tab2.selectbox_f2", "tab2.info"},
               error |-> "none"]

\* ------------------------------------------------------------ tab 3 (l. 224-273)

\* A mutant of DriverMeans: .sum() for .mean().
DriverSums(pairs) ==
    { [feature_1 |-> F,
       attrition_rate |-> << MeanRate(pairs, UniFilter(pairs, F))[1], 1 >>] :
      F \in Range(Column(pairs, "feature_1")) }

\* top_drivers, l. 227-229: .groupby("feature_1")["attrition_rate"].mean()
DriverMeans(pairs) ==
    { [feature_1 |-> F, attrition_rate |-> MeanRate(pairs, UniFilter(pairs, F))] :
      F \in Range(Column(pairs, "feature_1")) }

\* top_drivers, l. 227-232.
TopDrivers(pairs) == { head(s, HeadDrivers) : s \in sort_values(DriverMeans(pairs)) }

\* top_profiles, l. 239-241.
TopProfiles(pairs) ==
    { head(s, HeadProfiles) : s \in sort_values(Range(Select(pairs, DOMAIN pairs.rows))) }

\* with tab3.
Tab3(pairs) ==
    { [top_drivers |-> d, top_profiles |-> p,
       rendered |-> {"tab3.header", "tab3.top_drivers", "tab3.top_profiles",
                     "tab3.actions"},
       error |-> "none"] :
      d \in TopDrivers(pairs), p \in TopProfiles(pairs) }

\* ------------------------------------------------------------------ the script

\* The record a overriding the record b, field by field; `rendered` adds up.
Then(a, b) ==
    [k \in DOMAIN b |->
        IF k \notin DOMAIN a THEN b[k]
        ELSE IF k = "rendered" THEN b.rendered \cup a.rendered
        ELSE a[k]]

\* One execution of app.py from l. 57 on, given load_data()'s return and the
\* state of the three selectboxes: the set of final bindings.
Script(ld, c0, c1, c2) ==
    IF ld.error # "none"
    THEN {Then([error |-> ld.error], Unbound)}
    ELSE
    LET loaded == Then([df_scores |-> ld.scores, df_pairs |-> ld.pairs], Unbound) IN
    IF ~({"feature_1", "feature_2"} \subseteq ld.pairs.columns)
    THEN {Then([error |-> "KeyError"], loaded)}
    ELSE
    LET options == DriverFeatures(ld.pairs)
        listed  == Then([driver_features |-> options, rendered |-> {"tabs"}], loaded)
    IN
    UNION {
        LET after1 == Then(t1, listed) IN
        IF t1.error # "none" THEN {after1}
        ELSE LET t2     == Tab2(ld.pairs, options, c1, c2)
                 after2 == Then(t2, after1)
             IN  IF t2.error # "none" THEN {after2}
                 ELSE { Then(t3, after2) : t3 \in Tab3(ld.pairs) } :
        t1 \in Tab1(ld.pairs, options, c0) }

\* The script runs to its end or to its first exception, as one step.
Execute(c0, c1, c2) ==
    LET ld == load_data(cache, files) IN
    /\ cache' = ld.cache
    /\ reads' = reads + ld.reads
    /\ pc' = "ran"
    /\ UNCHANGED files
    /\ \E out \in Script(ld, c0, c1, c2) :
        /\ df_scores' = out.df_scores
        /\ df_pairs' = out.df_pairs
        /\ driver_features' = out.driver_features
        /\ selected_feature' = out.selected_feature
        /\ uni' = out.uni
        /\ top_combos' = out.top_combos
        /\ display_df' = out.display_df
        /\ f1' = out.f1
        /\ f2' = out.f2
        /\ subset' = out.subset
        /\ pivot' = out.pivot
        /\ top_drivers' = out.top_drivers
        /\ top_profiles' = out.top_profiles
        /\ rendered' = out.rendered
        /\ error' = out.error

\* ------------------------------------------------------------------ actions

\* The session opens: the first execution, every selectbox at its default.
Start ==
    /\ pc = "fresh"
    /\ Execute(None, None, None)

\* The user picks another driver in tab 1; the script runs again.  The other
\* selectboxes keep their values.
ChangeDriver ==
    /\ pc = "ran"
    /\ "tab1.selectbox" \in rendered
    /\ \E F \in Range(driver_features) :
        /\ F # selected_feature
        /\ Execute(F, f1, f2)

\* The user picks another Feature 1 in tab 2.
ChangeF1 ==
    /\ pc = "ran"
    /\ "tab2.selectbox_f1" \in rendered
    /\ \E F \in Range(driver_features) :
        /\ F # f1
        /\ Execute(selected_feature, F, f2)

\* The user picks another Feature 2 in tab 2.
ChangeF2 ==
    /\ pc = "ran"
    /\ "tab2.selectbox_f2" \in rendered
    /\ \E F \in Range(driver_features) :
        /\ F # f2
        /\ Execute(selected_feature, f1, F)

Next == Start \/ ChangeDriver \/ ChangeF1 \/ ChangeF2

\* ------------------------------------------------------------------ inputs

\* Feature names, as code points: "A", "AB", "B", "Ba", "Z", "a".
FA  == << 65 >>
FAB == << 65, 66 >>
FB  == << 66 >>
FBa == << 66, 97 >>
FZ  == << 90 >>
Fa  == << 97 >>

\* Rows about one driver with many values: a group of two rows ("A"), equal
\* rates, and FA stored as feature_2 once.
OneDriverRows ==
    << Row(FA,  "A", FB, "X", 30, 50),
       Row(FA,  "A", FB, "Y", 10, 20),
       Row(FA,  "B", FB, "X", 50, 30),
       Row(FA,  "C", FB, "Y", 50, 5),
       Row(FA,  "D", FB, "X", 40, 7),
       Row(FA,  "E", FB, "Y", 20, 9),
       Row(FA,  "F", FB, "X", 60, 11),
       Row(FAB, "P", FA, "A", 70, 8) >>

\* The three rows of the pivot example, then one combination, (FA "A", FB "X"),
\* stored a second time, and the pair stored once in the other order.
DuplicateRows ==
    << Row(FA, "A", FB, "X", 30, 50),
       Row(FA, "A", FB, "Y", 10, 20),
       Row(FA, "B", FB, "X", 50, 30),
       Row(FA, "A", FB, "X", 90, 10),
       Row(FB, "X", FA, "C", 80, 4) >>

\* Rows about many drivers: six names as feature_1, two equal means.
ManyDriverRows ==
    << Row(FA,  "x", FB, "y", 30, 5),
       Row(FA,  "z", FB, "y", 50, 5),
       Row(FAB, "x", FB, "y", 40, 5),
       Row(FB,  "x", FZ, "y", 20, 5),
       Row(FBa, "x", FZ, "y", 60, 5),
       Row(FZ,  "x", Fa, "y", 10, 5),
       Row(Fa,  "x", FA, "y", 70, 5) >>

\* A table whose only feature is paired with itself: one driver in the list.
SelfPairRows == << Row(FA, "x", FA, "y", 30, 5) >>

\* The tables of at most MaxRows rows taken, in order, from the rows c.
TablesOf(c) ==
    { LET idx == Ascending(I) IN [k \in DOMAIN idx |-> c[idx[k]]] :
      I \in {J \in SUBSET DOMAIN c : Cardinality(J) <= MaxRows} }

\* The tables of at most MaxRows consecutive rows of c.  (Every driver more
\* multiplies the selections of the three selectboxes, so the tables with many
\* drivers are taken from these.)
SlicesOf(c) ==
    { SubSeq(c, i, j) : i \in 1..Len(c), j \in 0..Len(c) } \cap
    { t \in Seq(Range(c)) : Len(t) <= MaxRows }

Tables ==
    TablesOf(OneDriverRows) \cup TablesOf(DuplicateRows) \cup
    SlicesOf(ManyDriverRows) \cup TablesOf(SelfPairRows)

SampleRows == SubSeq(OneDriverRows, 1, 3)

\* A CSV file with the header `columns`: each row has these fields and no other.
Csv(status, columns, rows) ==
    [status |-> status, columns |-> columns,
     rows |-> [i \in DOMAIN rows |-> [c \in columns |-> rows[i][c]]]]

\* What can be on disk when the session opens: two good files (the header
\* alone is a good file), or one file missing, malformed or short of a column.
InputFiles ==
    { [scores |-> Csv("ok", ScoreColumns, << >>), pairs |-> Csv("ok", PairColumns, t)] :
      t \in Tables }
    \cup
    { [scores |-> Csv(st, ScoreColumns, << >>), pairs |-> Csv("ok", PairColumns, SampleRows)] :
      st \in {"missing", "malformed"} }
    \cup
    { [scores |-> Csv("ok", ScoreColumns, << >>), pairs |-> Csv(st, PairColumns, SampleRows)] :
      st \in {"missing", "malformed"} }
    \cup
    { [scores |-> Csv("ok", ScoreColumns, << >>),
       pairs |-> Csv("ok", PairColumns \ {c}, SampleRows)] : c \in PairColumns }

Init ==
    /\ files \in InputFiles
    /\ cache = [hit |-> FALSE, scores |-> NoFrame, pairs |-> NoFrame]
    /\ reads = 0
    /\ df_scores = Unbound.df_scores
    /\ df_pairs = Unbound.df_pairs
    /\ driver_features = Unbound.driver_features
    /\ selected_feature = Unbound.selected_feature
    /\ uni = Unbound.uni
    /\ top_combos = Unbound.top_combos
    /\ display_df = Unbound.display_df
    /\ f1 = Unbound.f1
    /\ f2 = Unbound.f2
    /\ subset = Unbound.subset
    /\ pivot = Unbound.pivot
    /\ top_drivers = Unbound.top_drivers
    /\ top_profiles = Unbound.top_profiles
    /\ rendered = Unbound.rendered
    /\ error = Unbound.error
    /\ pc = "fresh"

Spec == Init /\ [][Next]_vars

\* ================================================================== claims

\* The last execution bound uni and top_combos (l. 98-139 ran).
UniBound == pc = "ran" /\ "tab1.subheader_combos" \in rendered

\* The rows of the loaded table with feature_1 == selected_feature.
RowsOfSelected ==
    {i \in DOMAIN df_pairs.rows : df_pairs.rows[i].feature_1 = selected_feature}

\* The rows of the loaded table that mention selected_feature on either side.
RowsMentioning ==
    {i \in DOMAIN df_pairs.rows :
        \/ df_pairs.rows[i].feature_1 = selected_feature
        \/ df_pairs.rows[i].feature_2 = selected_feature}

ValuesOfSelected == {df_pairs.rows[i].feature_1_value : i \in RowsOfSelected}

RowsOfValue(v) == {i \in RowsOfSelected : df_pairs.rows[i].feature_1_value = v}

RateSum(I) == SumOver(I, [i \in I |-> df_pairs.rows[i].attrition_rate])
SupportSum(I) == SumOver(I, [i \in I |-> df_pairs.rows[i].support])

\* The entry e of uni is the group of its key: mean rate, summed support.
IsGroupOf(e) ==
    LET G == RowsOfValue(e.feature_1_value) IN
    /\ G # {}
    /\ e.attrition_rate[2] > 0
    /\ e.attrition_rate[1] * Cardinality(G) = RateSum(G) * e.attrition_rate[2]
    /\ e.support = SupportSum(G)

\* C1 as stated: uni has one entry per distinct feature_1_value of the rows
\* with feature_1 == F, each with the mean rate and the summed support of its
\* rows; rows with F as feature_2 contribute nothing; no row, no entry, no error.
C1_AsStated ==
    /\ (pc = "ran" /\ df_pairs.columns = PairColumns) => UniBound
    /\ UniBound =>
        /\ Len(uni) = Cardinality(ValuesOfSelected)
        /\ {uni[k].feature_1_value : k \in DOMAIN uni} = ValuesOfSelected
        /\ \A k \in DOMAIN uni : IsGroupOf(uni[k])
        /\ (RowsOfSelected = {} => uni = << >>)

\* C1, amended: as stated, except that uni holds min(5, number of distinct
\* values) of these entries; a table with all its columns raises nothing in
\* l. 98-110.
C1_Amended ==
    /\ (pc = "ran" /\ df_pairs.columns = PairColumns) => UniBound
    /\ UniBound =>
        /\ Len(uni) = Min(HeadUni, Cardinality(ValuesOfSelected))
        /\ {uni[k].feature_1_value : k \in DOMAIN uni} \subseteq ValuesOfSelected
        /\ \A k, l \in DOMAIN uni :
            uni[k].feature_1_value = uni[l].feature_1_value => k = l
        /\ \A k \in DOMAIN uni : IsGroupOf(uni[k])
        /\ (RowsOfSelected = {} => uni = << >>)

\* C1's case: a group of two rows with different rates, and a row that has F
\* as feature_2 only.
C1_Witness ==
    /\ UniBound
    /\ \E k \in DOMAIN uni : uni[k].attrition_rate[2] = 2 /\ uni[k].attrition_rate[1] = 40
    /\ RowsMentioning # RowsOfSelected

\* The mean rate of the group of value v.
GroupMean(v) == << RateSum(RowsOfValue(v)), Cardinality(RowsOfValue(v)) >>

\* C2: uni has at most 5 entries, in non-increasing order of mean rate, with
\* distinct keys, and no group left out has a higher mean than one returned.
C2_TopFive ==
    UniBound =>
        /\ Len(uni) <= 5
        /\ \A k, l \in DOMAIN uni :
            /\ k < l => RateGE(GroupMean(uni[k].feature_1_value),
                               GroupMean(uni[l].feature_1_value))
            /\ uni[k].feature_1_value = uni[l].feature_1_value => k = l
        /\ \A v \in ValuesOfSelected \ {uni[k].feature_1_value : k \in DOMAIN uni} :
            \A k \in DOMAIN uni : RateGE(GroupMean(uni[k].feature_1_value), GroupMean(v))

\* C2's case: six distinct values, five returned, one left out.
C2_Witness ==
    /\ UniBound
    /\ Cardinality(ValuesOfSelected) = 6
    /\ Len(uni) = 5

\* C3: top_combos has min(3, rows mentioning F) rows, each a row of the table
\* as it is there, each mentioning F, no row twice, in non-increasing order of
\* attrition_rate, and no row left out has a higher rate than one returned.
C3_TopCombos ==
    UniBound =>
        /\ Len(top_combos) = Min(3, Cardinality(RowsMentioning))
        /\ \A k \in DOMAIN top_combos :
            /\ top_combos[k].index \in RowsMentioning
            /\ top_combos[k].row = df_pairs.rows[top_combos[k].index]
        /\ \A k, l \in DOMAIN top_combos :
            /\ top_combos[k].index = top_combos[l].index => k = l
            /\ k < l => top_combos[k].row.attrition_rate >= top_combos[l].row.attrition_rate
        /\ \A i \in RowsMentioning \ {top_combos[k].index : k \in DOMAIN top_combos} :
            \A k \in DOMAIN top_combos :
                top_combos[k].row.attrition_rate >= df_pairs.rows[i].attrition_rate

\* C3's case: more than three rows mention F, one of the three returned has F
\* as feature_2.
C3_Witness ==
    /\ UniBound
    /\ Cardinality(RowsMentioning) > 3
    /\ Len(top_combos) = 3
    /\ \E k \in DOMAIN top_combos : top_combos[k].row.feature_1 # selected_feature

\* The position of the column labelled lbl in display_df (0: none).
ColumnAt(lbl) ==
    IF \E k \in DOMAIN display_df.columns : display_df.columns[k] = lbl
    THEN CHOOSE k \in DOMAIN display_df.columns : display_df.columns[k] = lbl
    ELSE 0

\* C4 as stated: in every displayed row, the column labelled "<F> Value" holds
\* the value of F in that row: feature_1_value where F is feature_1, else
\* feature_2_value.
C4_AsStated ==
    (pc = "ran" /\ "tab1.dataframe" \in rendered) =>
        LET k == ColumnAt(ValueLabel(selected_feature)) IN
        \A i \in DOMAIN display_df.rows :
            LET r == top_combos[i].row IN
            /\ k # 0
            /\ display_df.rows[i].cells[k] =
                 IF r.feature_1 = selected_feature THEN r.feature_1_value
                 ELSE r.feature_2_value

\* The last execution built the pivot (l. 185-189 ran).
PivotBound == pc = "ran" /\ "tab2.heatmap" \in rendered

\* The rows of the loaded table that store the pair as (f1, f2).
RowsOfPair ==
    {i \in DOMAIN df_pairs.rows :
        df_pairs.rows[i].feature_1 = f1 /\ df_pairs.rows[i].feature_2 = f2}

RowsOfCell(a, x) ==
    {i \in RowsOfPair : /\ df_pairs.rows[i].feature_1_value = a
                        /\ df_pairs.rows[i].feature_2_value = x}

\* What C5 says of the keys and of the cells no row fills.
PivotShape ==
    /\ {subset[k].index : k \in DOMAIN subset} = RowsOfPair
    /\ RowsOfPair # {}
    /\ pivot.index = {df_pairs.rows[i].feature_1_value : i \in RowsOfPair}
    /\ pivot.columns = {df_pairs.rows[i].feature_2_value : i \in RowsOfPair}
    /\ DOMAIN pivot.cell = pivot.index \X pivot.columns
    /\ \A c \in DOMAIN pivot.cell : RowsOfCell(c[1], c[2]) = {} => pivot.cell[c] = NaN

\* C5 as stated: the pivot is built from the rows with feature_1 == F1 and
\* feature_2 == F2 only, its keys are their values, a cell holds the
\* attrition_rate of the row of its combination and is undefined without one.
C5_AsStated ==
    PivotBound =>
        /\ PivotShape
        /\ \A i \in RowsOfPair :
            LET c == pivot.cell[<< df_pairs.rows[i].feature_1_value,
                                   df_pairs.rows[i].feature_2_value >>]
            IN  c[2] > 0 /\ c[1] = df_pairs.rows[i].attrition_rate * c[2]

\* C5, amended: as stated, except that a cell holds the mean attrition_rate
\* of the rows of its combination (the row's own rate when there is one row).
C5_Amended ==
    PivotBound =>
        /\ PivotShape
        /\ \A c \in DOMAIN pivot.cell :
            LET G == RowsOfCell(c[1], c[2]) IN
            G # {} => /\ pivot.cell[c][2] > 0
                      /\ pivot.cell[c][1] * Cardinality(G) = RateSum(G) * pivot.cell[c][2]

\* C5's case: a cell two rows fill, a cell no row fills, and the pair also
\* stored in the other order.
C5_Witness ==
    /\ PivotBound
    /\ \E c \in DOMAIN pivot.cell : Cardinality(RowsOfCell(c[1], c[2])) = 2
    /\ \E c \in DOMAIN pivot.cell : pivot.cell[c] = NaN
    /\ \E i \in DOMAIN df_pairs.rows :
        df_pairs.rows[i].feature_1 = f2 /\ df_pairs.rows[i].feature_2 = f1

\* The three views have all been rendered to their end.
Tab1Rendered == {"tab1.header", "tab1.selectbox", "tab1.dataframe"} \subseteq rendered
Tab2Rendered == {"tab2.header", "tab2.selectbox_f1", "tab2.selectbox_f2"} \subseteq rendered
Tab3Rendered == {"tab3.header", "tab3.top_drivers", "tab3.top_profiles"} \subseteq rendered

\* C6 as stated, for a table with all its columns: a view whose filtered rows
\* are none shows its notice and renders no chart, pivot or table from zero
\* rows, and the other views are rendered.
C6_AsStated ==
    (pc = "ran" /\ df_pairs.columns = PairColumns) =>
        /\ (UniBound /\ RowsOfSelected = {}) =>
            /\ "tab1.warning" \in rendered
            /\ "tab1.chart" \notin rendered
            /\ ~("tab1.dataframe" \in rendered /\ display_df.rows = << >>)
            /\ Tab2Rendered /\ Tab3Rendered
        /\ ("tab2.selectbox_f2" \in rendered /\ RowsOfPair = {}) =>
            /\ "tab2.info" \in rendered
            /\ "tab2.heatmap" \notin rendered
            /\ Tab1Rendered /\ Tab3Rendered

\* A file of the session is missing, malformed or short of a required column.
BadFiles ==
    \/ files.scores.status # "ok"
    \/ files.pairs.status # "ok"
    \/ ~(PairColumns \subseteq files.pairs.columns)

\* The exceptions pd.read_csv raises inside load_data().
LoadErrors == {"FileNotFoundError", "ParserError"}

\* C7 as stated: with such a file the execution ends in load_data(), by an
\* exception of the load, and nothing of a view is rendered.
C7_AsStated ==
    (pc = "ran" /\ BadFiles) => (error \in LoadErrors /\ rendered = {})

\* The last execution reached the end of tab 3.
SummaryBound == pc = "ran" /\ "tab3.top_drivers" \in rendered

FirstFeatures == {df_pairs.rows[i].feature_1 : i \in DOMAIN df_pairs.rows}

RowsOfFeature(F) == {i \in DOMAIN df_pairs.rows : df_pairs.rows[i].feature_1 = F}

FeatureMean(F) == << RateSum(RowsOfFeature(F)), Cardinality(RowsOfFeature(F)) >>

\* C8: top_drivers names min(5, distinct feature_1) features, each a feature_1
\* of the table, none twice, in non-increasing order of the mean rate of the
\* feature's rows, none left out with a higher mean; top_profiles holds
\* min(5, rows) rows of the table, none twice, in non-increasing order of
\* attrition_rate, none left out with a higher rate.
C8_Summary ==
    SummaryBound =>
        /\ Len(top_drivers) <= 5
        /\ Len(top_drivers) = Min(5, Cardinality(FirstFeatures))
        /\ \A k, l \in DOMAIN top_drivers :
            /\ top_drivers[k].feature_1 \in FirstFeatures
            /\ top_drivers[k].feature_1 = top_drivers[l].feature_1 => k = l
            /\ k < l => RateGE(FeatureMean(top_drivers[k].feature_1),
                               FeatureMean(top_drivers[l].feature_1))
        /\ \A F \in FirstFeatures \ {top_drivers[k].feature_1 : k \in DOMAIN top_drivers} :
            \A k \in DOMAIN top_drivers : RateGE(FeatureMean(top_drivers[k].feature_1), FeatureMean(F))
        /\ Len(top_profiles) <= 5
        /\ Len(top_profiles) = Min(5, Len(df_pairs.rows))
        /\ \A k, l \in DOMAIN top_profiles :
            /\ top_profiles[k].index \in DOMAIN df_pairs.rows
            /\ top_profiles[k].row = df_pairs.rows[top_profiles[k].index]
            /\ top_profiles[k].index = top_profiles[l].index => k = l
            /\ k < l => top_profiles[k].row.attrition_rate >= top_profiles[l].row.attrition_rate
        /\ \A i \in DOMAIN df_pairs.rows \ {top_profiles[k].index : k \in DOMAIN top_profiles} :
            \A k \in DOMAIN top_profiles :
                top_profiles[k].row.attrition_rate >= df_pairs.rows[i].attrition_rate

\* C8's case: six features and six rows, five of each listed.
C8_Witness ==
    /\ SummaryBound
    /\ Cardinality(FirstFeatures) = 6
    /\ Len(top_drivers) = 5
    /\ Len(df_pairs.rows) > 5
    /\ Len(top_profiles) = 5

\* The last execution bound driver_features (l. 62-66 ran).
DriversBound == pc = "ran" /\ "tabs" \in rendered

\* C9: driver_features holds exactly the names of the feature_1 and feature_2
\* columns, in strictly ascending lexicographic order (so each once, and the
\* list is determined by the table).
C9_DriverList ==
    DriversBound =>
        /\ Range(driver_features) =
             {df_pairs.rows[i].feature_1 : i \in DOMAIN df_pairs.rows} \cup
             {df_pairs.rows[i].feature_2 : i \in DOMAIN df_pairs.rows}
        /\ \A k, l \in DOMAIN driver_features :
             k < l => StrLess(driver_features[k], driver_features[l])

\* C9's case: six names, one of them in both columns, one a prefix of another.
C9_Witness ==
    /\ DriversBound
    /\ Len(driver_features) = 6
    /\ \E i, j \in DOMAIN df_pairs.rows : df_pairs.rows[i].feature_1 = df_pairs.rows[j].feature_2
    /\ FA \in Range(driver_features) /\ FAB \in Range(driver_features)

\* C10: once the tables are loaded, no step changes them, the memo or the
\* files, and no step reads the files again; load_data()'s body runs at most
\* once in a session.
C10_ReadOnlyLoadedOnce ==
    [][ /\ reads' <= 1
        /\ files' = files
        /\ cache.hit =>
            /\ cache' = cache
            /\ reads' = reads
            /\ df_pairs' = df_pairs
            /\ df_scores' = df_scores
            /\ df_pairs' = [columns |-> files.pairs.columns, rows |-> files.pairs.rows] ]_vars

\* C10's case: the user has changed all three selections since the session
\* opened, and the files were read once.
C10_Witness ==
    /\ pc = "ran"
    /\ reads = 1
    /\ Len(driver_features) >= 2
    /\ selected_feature # driver_features[1]
    /\ f1 # driver_features[1]
    /\ f2 # driver_features[2]

====
